---- MODULE Spec2Model ----
(***************************************************************************)
(* A model of the retrieval core of rag-demo/rag.py:                       *)
(*   - DocumentProcessor.create_contextual_chunks (the chunker),           *)
(*   - VectorStore.combine_search_results / hybrid_search and              *)
(*     RAGSystem.retrieve_context / filter_and_rank_results (the ranker),  *)
(*   - RAGSystem.query / index_documentation and the response cache.       *)
(*                                                                         *)
(* Several specifications share the module.  Each one drives its own       *)
(* group of variables and leaves the other groups at their initial value:  *)
(*   SpecChunker  : one run of create_contextual_chunks over a document,   *)
(*   SpecRanker   : one run of retrieve_context over two candidate lists,  *)
(*   SpecFullRange: the same over the whole range of scores,               *)
(*   Spec         : a RAGSystem serving query / index_documentation calls, *)
(*   SpecService  : the same with failing components and a damaged cache, *)
(*   SpecBar      : queries whose texts hold the key separator,            *)
(*   SpecMetrics  : queries with their counters, and get_metrics,          *)
(*   SpecStore    : a VectorStore rebuilt, reloaded and searched,          *)
(*   SpecDir      : one run of process_directory,                          *)
(*   SpecRebuild  : a rebuild running beside searches,                     *)
(*   SpecWriters  : query calls caching responses on two threads.          *)
(*                                                                         *)
(* Units.  Token counts are plain integers.  Scores are integers in        *)
(* thousandths (1000 = 1.0); weights and the boost factor are in tenths    *)
(* (7 = 0.7, 12 = 1.2).  Time is in hours.                                 *)
(***************************************************************************)
EXTENDS Integers, Sequences, FiniteSets, TLC

VARIABLES
  \* ---- chunker (create_contextual_chunks) ----
  content_blocks,   \* the document: a sequence of [type, tokens]
  blk,              \* index of the next block the loop will take (i + 1)
  current_chunk,    \* pending buffer: sequence of block indices
  current_size,     \* running token count of the pending buffer
  current_section,  \* index of the last heading block seen, 0 for None
  chunks,           \* emitted chunks: sequence of [blocks, section]
  cpc,              \* "idle" | "loop" | "done"
  \* ---- ranker (retrieve_context) ----
  semantic_results, \* what VectorStore.search returned: [id, score, relevance_type]
  keyword_results,  \* what VectorStore.keyword_search returned
  content_types,    \* chunk id -> metadata['content_types'] of the chunk
  context_type,     \* the context type retrieve_context works with
  max_chunks,       \* retrieve_context's max_chunks
  combined_results, \* what combine_search_results returned
  search_results,   \* what hybrid_search returned
  hits,             \* what retrieve_context returned
  rpc,              \* "idle" | "start" | "searched" | "done"
  \* ---- RAGSystem (query, index_documentation, response cache) ----
  now,              \* datetime.now(), hours
  cache,            \* self.cache: cache key -> [response, timestamp]
  disk_cache,       \* response_cache.pkl: [state, entries] as last written
  generation,       \* completed index rebuilds; 0: faiss_index is None
  asked,            \* cache keys queried since the last rebuild completed
  ret,              \* the last query call and what it returned
  \* ---- VectorStore (index_documents, save_index, load_index) ----
  faiss_index,      \* self.faiss_index: [present, vectors]
  chunk_ids,        \* self.chunk_ids
  faiss_file,       \* faiss_index.idx: [state, content]
  chunk_ids_file,   \* chunk_ids.pkl: [state, content]
  sret,             \* the last store call and what it returned
  collection,       \* the Chroma collection: the chunk ids it holds
  \* ---- DocumentProcessor.process_directory ----
  files,            \* the files rglob yields: [supported, fails, n]
  fidx,             \* index of the next file the loop will take
  dir_chunks,       \* chunks: the chunks collected so far
  dpc,              \* "idle" | "loop" | "done"
  \* ---- a rebuild running beside a search ----
  ipc,              \* where index_documents is
  pending,          \* the chunk list index_documents was given
  spc,              \* where search is
  s_index,          \* the index object search called
  s_ids,            \* the candidate ids search read from chunk_ids
  \* ---- query calls caching their responses on several threads ----
  wpc,              \* thread -> where its query is
  wsnap,            \* thread -> the dict contents its pickle.dump took
  \* ---- RAGSystem.metrics ----
  metrics           \* self.metrics: [queries_processed, cache_hits]

chunkerVars == <<content_blocks, blk, current_chunk, current_size,
                 current_section, chunks, cpc>>

rankerVars == <<semantic_results, keyword_results, content_types,
                context_type, max_chunks, combined_results, search_results,
                hits, rpc>>

systemVars == <<now, cache, disk_cache, generation, asked, ret>>

storeVars == <<faiss_index, chunk_ids, faiss_file, chunk_ids_file, sret,
               collection>>

dirVars == <<files, fidx, dir_chunks, dpc>>

rebuildVars == <<ipc, pending, spc, s_index, s_ids>>

writerVars == <<wpc, wsnap>>

metricsVars == <<metrics>>

vars == <<chunkerVars, rankerVars, systemVars, storeVars, dirVars,
          rebuildVars, writerVars, metricsVars>>

(***************************************************************************)
(* Configuration (CONFIG) and bounds                                       *)
(***************************************************************************)
chunk_size == 1000
chunk_overlap == 200

MaxBlocks == 4

\* The token counts a block may have.  They straddle chunk_overlap and
\* chunk_size: 100 + 900 fills a chunk exactly, 200 is a whole overlap,
\* 1100 is a block that alone exceeds chunk_size.
TokenChoices == {100, 200, 900, 1100}

\* Blocks as extract_structured_content produces them, reduced to what the
\* chunker reads: the type (heading or not) and the tokenizer's count.
BlockChoices ==
  {[type |-> "heading", tokens |-> 100]} \cup
  {[type |-> "text", tokens |-> t] : t \in TokenChoices}

(***************************************************************************)
(* Helpers on sequences                                                    *)
(***************************************************************************)
Last(s) == s[Len(s)]

Take(s, n) == SubSeq(s, 1, IF n < Len(s) THEN n ELSE Len(s))

RECURSIVE SumSeq(_)
SumSeq(s) == IF s = <<>> THEN 0 ELSE Head(s) + SumSeq(Tail(s))

IsSuffix(s, t) ==
  /\ Len(s) <= Len(t)
  /\ s = SubSeq(t, Len(t) - Len(s) + 1, Len(t))

(***************************************************************************)
(* DocumentProcessor: the chunker                                          *)
(***************************************************************************)
\* len(self.encoding.encode(block['content'])) of block number b
block_tokens(b) == content_blocks[b].tokens

\* sum(len(self.encoding.encode(b['content'])) for b in blocks)
TokensOf(blocks) == SumSeq([k \in DOMAIN blocks |-> block_tokens(blocks[k])])

\* get_overlap_blocks: walk the closed buffer from its end, keep whole
\* blocks while they fit in chunk_overlap, stop at the first that does not.
RECURSIVE OverlapWalk(_, _, _)
OverlapWalk(blocks, j, overlap_tokens) ==
  IF j = 0 THEN <<>>
  ELSE IF overlap_tokens + block_tokens(blocks[j]) <= chunk_overlap
       THEN OverlapWalk(blocks, j - 1,
                        overlap_tokens + block_tokens(blocks[j]))
            \o <<blocks[j]>>
       ELSE <<>>

\* Faulty variant of the walk: `continue` instead of `break`.
RECURSIVE OverlapWalkSkips(_, _, _)
OverlapWalkSkips(blocks, j, overlap_tokens) ==
  IF j = 0 THEN <<>>
  ELSE IF overlap_tokens + block_tokens(blocks[j]) <= chunk_overlap
       THEN OverlapWalkSkips(blocks, j - 1,
                             overlap_tokens + block_tokens(blocks[j]))
            \o <<blocks[j]>>
       ELSE OverlapWalkSkips(blocks, j - 1, overlap_tokens)

get_overlap_blocks_skipping(blocks) ==
  IF blocks = <<>> THEN <<>> ELSE OverlapWalkSkips(blocks, Len(blocks), 0)

get_overlap_blocks(blocks) ==
  IF blocks = <<>> THEN <<>> ELSE OverlapWalk(blocks, Len(blocks), 0)

\* Faulty variant of the new buffer: the block that triggered the split is dropped.
StartNextChunkDropsBlock(closed, b) == get_overlap_blocks(closed)

\* current_chunk = overlap_blocks + [block]
StartNextChunk(closed, b) == get_overlap_blocks(closed) \o <<b>>

\* if block['type'] == 'heading': current_section = block['content']
SectionAfter(b) ==
  IF content_blocks[b].type = "heading" THEN b ELSE current_section

\* Does taking block b close the pending buffer?
NeedsNewChunk(b) ==
  /\ current_size + block_tokens(b) > chunk_size
  /\ current_chunk # <<>>

\* The chunker when no document is being processed.
ChunkerIdle ==
  /\ content_blocks = <<>>
  /\ blk = 1
  /\ current_chunk = <<>>
  /\ current_size = 0
  /\ current_section = 0
  /\ chunks = <<>>
  /\ cpc = "idle"

ChunkerInit ==
  /\ content_blocks \in UNION {[1..n -> BlockChoices] : n \in 0..MaxBlocks}
  /\ blk = 1
  /\ current_chunk = <<>>
  /\ current_size = 0
  /\ current_section = 0
  /\ chunks = <<>>
  /\ cpc = "loop"

\* One loop iteration in which the size test closes the buffer.
ChunkSplit ==
  /\ cpc = "loop"
  /\ blk <= Len(content_blocks)
  /\ NeedsNewChunk(blk)
  /\ current_section' = SectionAfter(blk)
  /\ chunks' = Append(chunks, [blocks |-> current_chunk,
                               section |-> SectionAfter(blk)])
  /\ current_chunk' = StartNextChunk(current_chunk, blk)
  /\ current_size' = TokensOf(StartNextChunk(current_chunk, blk))
  /\ blk' = blk + 1
  /\ UNCHANGED <<content_blocks, cpc, rankerVars, systemVars, storeVars,
                 dirVars, rebuildVars, writerVars,
                 metricsVars>>

\* One loop iteration in which the block joins the pending buffer.
ChunkAppend ==
  /\ cpc = "loop"
  /\ blk <= Len(content_blocks)
  /\ ~NeedsNewChunk(blk)
  /\ current_section' = SectionAfter(blk)
  /\ current_chunk' = Append(current_chunk, blk)
  /\ current_size' = current_size + block_tokens(blk)
  /\ blk' = blk + 1
  /\ UNCHANGED <<content_blocks, chunks, cpc, rankerVars, systemVars, storeVars,
                 dirVars, rebuildVars, writerVars,
                 metricsVars>>

\* After the loop: flush what is pending and return.
ChunkFlush ==
  /\ cpc = "loop"
  /\ blk > Len(content_blocks)
  /\ chunks' = IF current_chunk # <<>>
               THEN Append(chunks, [blocks |-> current_chunk,
                                    section |-> current_section])
               ELSE chunks
  /\ cpc' = "done"
  /\ UNCHANGED <<content_blocks, blk, current_chunk, current_size,
                 current_section, rankerVars, systemVars, storeVars,
                 dirVars, rebuildVars, writerVars,
                 metricsVars>>

ChunkerNext == ChunkSplit \/ ChunkAppend \/ ChunkFlush

(***************************************************************************)
(* VectorStore / RAGSystem: the ranker                                     *)
(***************************************************************************)
\* hybrid_search's default weights (retrieve_context passes none), tenths
semantic_weight == 7
keyword_weight == 3
\* CONFIG['similarity_threshold'], thousandths
similarity_threshold == 700
\* result.score *= 1.2, tenths
boost_factor == 12

NumChunks == 3
ChunkIds == 1..NumChunks

\* Scores the two searches may report for a chunk, thousandths.  With the
\* weights above: 900 alone fuses to 630 (below the threshold, 756 when
\* boosted), 1000 alone to 700, 900 with 300 to 720, 1000 with 300 to 790,
\* keyword alone to 90.
SemScores == {900, 1000}
KwScores == {300}

MaxChunkChoices == {1, 2}

ContextTypes == {"api", "setup", "tutorial", "troubleshooting", "general"}

\* Content-type taggings of the corpus (analyze_content_types' output per
\* chunk): the tag sets below laid over the chunk ids, at two rotations.
TagCycle == << {"api", "setup"}, {"tutorial"}, {"code", "troubleshooting"}, {} >>
Rotations == {0, 2}
Corpora ==
  {[c \in ChunkIds |-> TagCycle[((c - 1 + r) % Len(TagCycle)) + 1]] :
     r \in Rotations}

\* Faulty variant: the weight is not applied to the score.
WeightedUnscaled(w, score) == score

\* weight * score
Weighted(w, score) == (w * score) \div 10

\* A result list for the chunks in DOMAIN f with scores f, in any order
\* that is descending by score (both searches sort by score; the order
\* among equal scores is whatever the index delivered).
Rankings(f, rtype) ==
  LET n == Cardinality(DOMAIN f)
      orders == {p \in [1..n -> DOMAIN f] :
                   /\ \A i, j \in 1..n : i # j => p[i] # p[j]
                   /\ \A i \in 1..n : i < n => f[p[i]] >= f[p[i + 1]]}
  IN {[i \in 1..n |-> [id |-> p[i], score |-> f[p[i]],
                       relevance_type |-> rtype]] : p \in orders}

\* ---- combine_search_results ----
\* The two dictionaries combined_scores / all_results: insertion-ordered
\* keys, and per key the combined score and the result object.
EmptyDict == [keys |-> <<>>, score |-> <<>>, result |-> <<>>]

DictPut(d, id, s, r) ==
  [keys   |-> IF id \in DOMAIN d.score THEN d.keys ELSE Append(d.keys, id),
   score  |-> (id :> s) @@ d.score,
   result |-> (id :> r) @@ d.result]

\* for result in semantic_results: ...
RECURSIVE AddSemanticResults(_, _, _)
AddSemanticResults(d, results, sw) ==
  IF results = <<>> THEN d
  ELSE AddSemanticResults(
         DictPut(d, Head(results).id, Weighted(sw, Head(results).score),
                 Head(results)),
         Tail(results), sw)

\* Faulty variant: a keyword score overwrites the semantic contribution (= for +=).
AddKeywordResultOverwrites(d, r, kw) ==
  IF r.id \in DOMAIN d.score
  THEN [d EXCEPT !.score[r.id] = Weighted(kw, r.score),
                 !.result[r.id].relevance_type = "hybrid"]
  ELSE DictPut(d, r.id, Weighted(kw, r.score),
               [r EXCEPT !.relevance_type = "keyword"])

\* One keyword result entering the dictionaries.
AddKeywordResult(d, r, kw) ==
  IF r.id \in DOMAIN d.score
  THEN [d EXCEPT !.score[r.id] = @ + Weighted(kw, r.score),
                 !.result[r.id].relevance_type = "hybrid"]
  ELSE DictPut(d, r.id, Weighted(kw, r.score),
               [r EXCEPT !.relevance_type = "keyword"])

\* for result in keyword_results: ...
RECURSIVE AddKeywordResults(_, _, _)
AddKeywordResults(d, results, kw) ==
  IF results = <<>> THEN d
  ELSE AddKeywordResults(AddKeywordResult(d, Head(results), kw),
                         Tail(results), kw)

\* list.sort / sorted with reverse=True on the score: descending, stable
\* (equal scores keep their previous relative order).
RECURSIVE InsertByScore(_, _)
InsertByScore(sorted, r) ==
  IF sorted = <<>> THEN <<r>>
  ELSE IF Head(sorted).score >= r.score
       THEN <<Head(sorted)>> \o InsertByScore(Tail(sorted), r)
       ELSE <<r>> \o sorted

RECURSIVE SortByScoreDesc(_)
SortByScoreDesc(results) ==
  IF results = <<>> THEN <<>>
  ELSE InsertByScore(SortByScoreDesc(SubSeq(results, 1, Len(results) - 1)),
                     Last(results))

combine_search_results(sem, kws, sw, kw) ==
  LET d == AddKeywordResults(AddSemanticResults(EmptyDict, sem, sw), kws, kw)
      scored == [i \in DOMAIN d.keys |->
                   [d.result[d.keys[i]] EXCEPT !.score = d.score[d.keys[i]]]]
  IN SortByScoreDesc(scored)

\* hybrid_search: the fused list cut to top_k
hybrid_search(sem, kws, top_k) ==
  Take(combine_search_results(sem, kws, semantic_weight, keyword_weight),
       top_k)

\* ---- retrieve_context ----
\* create_search_filters: filters['content_types'] ({} when there is none)
create_search_filters(ctx) ==
  CASE ctx = "api" -> {"api"}
    [] ctx = "setup" -> {"setup"}
    [] ctx = "tutorial" -> {"tutorial", "code"}
    [] ctx = "troubleshooting" -> {"troubleshooting"}
    [] OTHER -> {}

\* The boost test of filter_and_rank_results for one result.
IsBoosted(r, ctx) ==
  \/ ctx = "api" /\ "api" \in content_types[r.id]
  \/ ctx = "tutorial" /\ "code" \in content_types[r.id]
  \/ ctx = "troubleshooting" /\ "troubleshooting" \in content_types[r.id]

\* result.score *= 1.2
BoostScore(score) == (score * boost_factor) \div 10

BoostResult(r, ctx) ==
  IF IsBoosted(r, ctx) THEN [r EXCEPT !.score = BoostScore(@)] ELSE r

\* Faulty variant: the boost is applied before the threshold test.
filter_and_rank_boost_first(results, ctx) ==
  LET boosted == [i \in DOMAIN results |-> BoostResult(results[i], ctx)]
      kept    == SelectSeq(boosted,
                           LAMBDA r : r.score >= similarity_threshold)
  IN SortByScoreDesc(kept)

\* Faulty variant: the comparison with the threshold is inverted.
filter_and_rank_inverted(results, ctx, threshold) ==
  LET filtered == SelectSeq(results, LAMBDA r : r.score <= threshold)
      boosted  == [i \in DOMAIN filtered |-> BoostResult(filtered[i], ctx)]
  IN SortByScoreDesc(boosted)

\* filter_and_rank_results under a configuration whose
\* similarity_threshold is threshold.
filter_and_rank_at(results, ctx, threshold) ==
  LET filtered == SelectSeq(results, LAMBDA r : r.score >= threshold)
      boosted  == [i \in DOMAIN filtered |-> BoostResult(filtered[i], ctx)]
  IN SortByScoreDesc(boosted)

filter_and_rank_results(results, ctx) ==
  filter_and_rank_at(results, ctx, similarity_threshold)

\* retrieve_context as a function of the two searches' results, under a
\* configuration whose similarity_threshold is threshold.
retrieve_context_at(sem, kws, n, ctx, threshold) ==
  Take(filter_and_rank_at(hybrid_search(sem, kws, n * 2), ctx, threshold), n)

retrieve_context(sem, kws, n, ctx) ==
  Take(filter_and_rank_results(hybrid_search(sem, kws, n * 2), ctx), n)

RankerIdle ==
  /\ semantic_results = <<>>
  /\ keyword_results = <<>>
  /\ content_types = <<>>
  /\ context_type = "general"
  /\ max_chunks = 1
  /\ combined_results = <<>>
  /\ search_results = <<>>
  /\ hits = <<>>
  /\ rpc = "idle"

\* retrieve_context is entered with the lists the two searches return for
\* top_k * 2 = max_chunks * 4 requested candidates.
RankerInit ==
  /\ max_chunks \in MaxChunkChoices
  /\ context_type \in ContextTypes
  /\ content_types \in Corpora
  /\ \E S \in SUBSET ChunkIds : \E f \in [S -> SemScores] :
       \E r \in Rankings(f, "semantic") :
         semantic_results = Take(r, max_chunks * 4)
  /\ \E S \in SUBSET ChunkIds : \E f \in [S -> KwScores] :
       \E r \in Rankings(f, "keyword") :
         keyword_results = Take(r, max_chunks * 4)
  /\ combined_results = <<>>
  /\ search_results = <<>>
  /\ hits = <<>>
  /\ rpc = "start"

\* Scores over the whole range the two searches can report, thousandths:
\* an inner product of unit vectors is in [-1, 1] (999 stands for the
\* scores just below 1), a TF-IDF cosine that keyword_search returns is in
\* (0, 1].
FullSemScores == {0 - 1000, 999, 1000}
FullKwScores == {300, 1000}

\* The chunks the two candidate lists are drawn from here: three, enough
\* for a semantic, a keyword and a hybrid candidate side by side.
FullRangeIds == {c \in ChunkIds : c <= 3}

\* retrieve_context is called with candidate lists whose scores range over
\* the full intervals.
RankerInitFullRange ==
  /\ max_chunks \in MaxChunkChoices
  /\ context_type \in {"api", "general"}
  /\ content_types \in Corpora
  /\ \E S \in SUBSET FullRangeIds : \E f \in [S -> FullSemScores] :
       \E r \in Rankings(f, "semantic") :
         semantic_results = Take(r, max_chunks * 4)
  /\ \E S \in SUBSET FullRangeIds : \E f \in [S -> FullKwScores] :
       \E r \in Rankings(f, "keyword") :
         keyword_results = Take(r, max_chunks * 4)
  /\ combined_results = <<>>
  /\ search_results = <<>>
  /\ hits = <<>>
  /\ rpc = "start"

\* retrieve_context, first half: hybrid_search(top_k = max_chunks * 2).
HybridSearch ==
  /\ rpc = "start"
  /\ combined_results' =
       combine_search_results(semantic_results, keyword_results,
                              semantic_weight, keyword_weight)
  /\ search_results' =
       hybrid_search(semantic_results, keyword_results, max_chunks * 2)
  /\ rpc' = "searched"
  /\ UNCHANGED <<semantic_results, keyword_results, content_types,
                 context_type, max_chunks, hits, chunkerVars, systemVars,
                 storeVars,
                 dirVars, rebuildVars, writerVars,
                 metricsVars>>

\* retrieve_context, second half: filter_and_rank_results, cut to max_chunks.
FilterAndRank ==
  /\ rpc = "searched"
  /\ hits' = Take(filter_and_rank_results(search_results, context_type),
                  max_chunks)
  /\ rpc' = "done"
  /\ UNCHANGED <<semantic_results, keyword_results, content_types,
                 context_type, max_chunks, combined_results, search_results,
                 chunkerVars, systemVars,
                 storeVars,
                 dirVars, rebuildVars, writerVars,
                 metricsVars>>

RankerNext == HybridSearch \/ FilterAndRank

(***************************************************************************)
(* RAGSystem: query, index_documentation and the response cache            *)
(***************************************************************************)
\* CONFIG['cache_ttl_hours']
cache_ttl_hours == 24

\* Index rebuilds a run may complete.
MaxGen == 2

\* The instants at which calls are made, hours.  They put a call just
\* before, exactly at and just after the expiry of an entry written at 0
\* or at 1.
TimePoints == {0, 1, 23, 24, 25}

\* The (question, context_type, max_context_chunks) triples callers ask.
\* A text is the sequence of its pieces, the character '|' a piece of its
\* own.
Triples ==
  {[question |-> <<"how">>, context_type |-> <<"auto">>, max_chunks |-> 5],
   [question |-> <<"why">>, context_type |-> <<"api">>, max_chunks |-> 5]}

\* Triples whose question or context type holds the character '|'.
BarTriples ==
  {[question |-> <<"x", "|", "api">>, context_type |-> <<"auto">>,
    max_chunks |-> 5],
   [question |-> <<"x">>, context_type |-> <<"api", "|", "auto">>,
    max_chunks |-> 5]}

\* str(n) as the f-string renders max_context_chunks.
IntText(n) ==
  <<"0", "1", "2", "3", "4", "5", "6", "7", "8", "9">>[n + 1]

\* create_cache_key: the key data f"{question}|{context_type}|{max_chunks}"
\* (the md5 digest of it is taken to be injective).
create_cache_key(t) ==
  t.question \o <<"|">> \o t.context_type \o <<"|">>
    \o <<IntText(t.max_chunks)>>

\* A question query cannot build a cache key for: it holds a lone surrogate
\* (a non-UTF-8 byte of the command line), so key_data.encode() raises.
UnencodableQuestion == <<"\\udcff">>

\* The triples the service is asked, one of them not encodable.
ServiceTriples ==
  {[question |-> <<"how">>, context_type |-> <<"auto">>, max_chunks |-> 5],
   [question |-> UnencodableQuestion, context_type |-> <<"auto">>,
    max_chunks |-> 5]}

\* The instants at which the service is called or restarted, hours.
ServiceTimePoints == {0, 23, 24}

\* Numbers of hits retrieve_context may return to query.
HitCounts == {0, 2}

\* What a call meets on its way: the embedding provider (encode in
\* VectorStore.search), the number of hits above the threshold, the answer
\* generator (no api key, or ChatCompletion.create raising) and the write
\* of the cache file (open failing, or pickle.dump failing part-way).  When
\* the embedding provider raises, nothing after it is consulted.
Envs ==
  {e \in [embedding : {"ok", "raises"},
          hits      : HitCounts,
          generator : {"ok", "unavailable", "raises"},
          save      : {"ok", "open_fails", "dump_fails"}] :
     e.embedding = "raises" =>
       e.hits = 2 /\ e.generator = "ok" /\ e.save = "ok"}

\* The environments that differ for a call: a streaming call returns
\* before the generator and the cache file are consulted, and a call with
\* use_cache=False never writes the cache file.
EnvsFor(use_cache, stream_response) ==
  {e \in Envs :
     /\ stream_response => e.generator = "ok" /\ e.save = "ok"
     /\ ~ use_cache => e.save = "ok"}

NormalEnv ==
  [embedding |-> "ok", hits |-> 2, generator |-> "ok", save |-> "ok"]

\* Everything works, or retrieval raises.
BasicEnvs == {NormalEnv, [NormalEnv EXCEPT !.embedding = "raises"]}

\* No cache entry / no response.
NoResponse ==
  [query |-> <<>>, kind |-> "none", gen |-> 0, at |-> 0, sources |-> 0,
   confidence |-> "zero"]
NoTriple == [question |-> <<>>, context_type |-> <<>>, max_chunks |-> 0]
NoEntry == [response |-> NoResponse, timestamp |-> 0 - 1]
NoCall ==
  [op |-> "none", triple |-> NoTriple, key |-> <<>>, use_cache |-> FALSE,
   stream |-> FALSE, first_after_rebuild |-> FALSE, index_gen |-> 0,
   at |-> 0, seen |-> NoEntry, kind |-> "none", response |-> NoResponse,
   hits |-> 0 - 1, events |-> {}]

\* The cache file: readable with its entries, unreadable (pickle.load
\* raises), or malformed (it loads, but an entry has no usable timestamp).
\* A file that does not exist loads like an empty one.
CacheFile(entries) == [state |-> "ok", entries |-> entries]

\* Faulty variant: an entry is still valid at age = ttl (<= for <).
is_cache_valid_inclusive(cached_item) ==
  now - cached_item.timestamp <= cache_ttl_hours

\* Faulty variant: an entry stops being valid an hour before the ttl.
is_cache_valid_early(cached_item) ==
  now - cached_item.timestamp < cache_ttl_hours - 1

\* is_cache_valid: age < timedelta(hours=cache_ttl_hours)
is_cache_valid(cached_item) ==
  now - cached_item.timestamp < cache_ttl_hours

\* Faulty variant: the sweep removes the valid entries.
clean_cache_keeps_expired(entries) ==
  [k \in {k \in DOMAIN entries : ~ is_cache_valid(entries[k])} |->
     entries[k]]

\* clean_cache: delete every key whose item is not valid.
clean_cache(entries) ==
  [k \in {k \in DOMAIN entries : is_cache_valid(entries[k])} |-> entries[k]]

\* Faulty variant: the handler of load_cache leaves self.cache as it is.
load_cache_no_reset(file, read_raises) ==
  IF file.state = "unreadable" \/ read_raises THEN <<>>
  ELSE IF file.state = "malformed" THEN file.entries
  ELSE clean_cache(file.entries)

\* load_cache on the cache {} of __init__: pickle.load raising leaves {}
\* and the handler sets {}; a malformed file is assigned to self.cache, then
\* clean_cache raises (before it deletes anything) and the handler sets {}.
load_cache(file, read_raises) ==
  IF file.state = "unreadable" \/ read_raises THEN <<>>
  ELSE IF file.state = "malformed" THEN <<>>
  ELSE clean_cache(file.entries)

\* Faulty variant: the file is written before the new entry is inserted.
save_cache_before_insert(mem, save) ==
  CASE save = "ok"         -> CacheFile(cache)
    [] save = "open_fails" -> disk_cache
    [] save = "dump_fails" -> [state |-> "unreadable", entries |-> <<>>]

\* save_cache of the in-memory cache mem: open(..., 'wb') failing leaves
\* the file as it was, pickle.dump failing leaves a truncated file.
save_cache(mem, save) ==
  CASE save = "ok"         -> CacheFile(mem)
    [] save = "open_fails" -> disk_cache
    [] save = "dump_fails" -> [state |-> "unreadable", entries |-> <<>>]

\* calculate_confidence: 0.0 without hits, else a mean of hit scores, all
\* at or above the threshold.
calculate_confidence(n) == IF n = 0 THEN "zero" ELSE "positive"

\* prepare_sources: one source per hit.
prepare_sources(n) == n

\* Faulty variant: only the top-ranked hit is listed as a source.
fallback_top_source_only(question, n) ==
  [query |-> question,
   kind |-> IF n = 0 THEN "not_found" ELSE "fallback",
   gen |-> generation, at |-> now,
   sources |-> IF n = 0 THEN 0 ELSE 1,
   confidence |-> calculate_confidence(n)]

\* generate_fallback_response: the "couldn't find relevant information"
\* message without hits, else an extract of the top hit's content.
generate_fallback_response(question, n) ==
  [query |-> question,
   kind |-> IF n = 0 THEN "not_found" ELSE "fallback",
   gen |-> generation, at |-> now,
   sources |-> prepare_sources(n),
   confidence |-> calculate_confidence(n)]

\* generate_response: the fallback without an api key or when the
\* completion call raises, else the generator's answer.
generate_response(question, n, generator) ==
  IF generator = "unavailable"
    THEN generate_fallback_response(question, n)
  ELSE IF generator = "raises"
    THEN generate_fallback_response(question, n)
  ELSE [query |-> question,
        kind |-> "answer", gen |-> generation, at |-> now,
        sources |-> prepare_sources(n),
        confidence |-> calculate_confidence(n)]

\* The response of query's exception handler.
ErrorResponse(question) ==
  [query |-> question, kind |-> "error", gen |-> generation, at |-> now, sources |-> 0,
   confidence |-> "zero"]

\* self.metrics as __init__ sets it.
ZeroMetrics == [queries_processed |-> 0, cache_hits |-> 0]

\* The counters are followed up to MaxCount.
MaxCount == 3

\* self.metrics['cache_hits'] += 1 on a valid cached entry.
count_cache_hit(m) == [m EXCEPT !.cache_hits = @ + 1]

\* update_metrics: self.metrics['queries_processed'] += 1
update_metrics(m) == [m EXCEPT !.queries_processed = @ + 1]

\* What a query call of the given outcome does to the counters: a cached
\* response returns after counting the hit, a generated response is
\* counted by update_metrics after cache_response has returned, and the
\* streaming, error and raising paths count nothing.
metrics_after_query(m, kind) ==
  CASE kind = "cached" -> count_cache_hit(m)
    [] kind = "answer" -> update_metrics(m)
    [] OTHER           -> m

\* get_metrics: the counters, cache_hits / max(queries_processed, 1) as a
\* fraction, and len(self.cache).
get_metrics(m, entries) ==
  [queries_processed |-> m.queries_processed,
   cache_hits |-> m.cache_hits,
   cache_hit_rate |->
     [num |-> m.cache_hits,
      den |-> IF m.queries_processed > 1 THEN m.queries_processed ELSE 1],
   cache_size |-> Cardinality(DOMAIN entries)]

MetricsIdle == metrics = ZeroMetrics

SystemIdle ==
  /\ now = 0
  /\ cache = <<>>
  /\ disk_cache = CacheFile(<<>>)
  /\ generation = 0
  /\ asked = {}
  /\ ret = [NoCall EXCEPT !.op = "idle"]

\* RAGSystem.__init__ with no persisted index and no persisted cache.
SystemInit ==
  /\ now = 0
  /\ cache = <<>>
  /\ disk_cache = CacheFile(<<>>)
  /\ generation = 0
  /\ asked = {}
  /\ ret = NoCall

\* RAGSystem.__init__ with a persisted index and no persisted cache.
SystemInitIndexed ==
  /\ now = 0
  /\ cache = <<>>
  /\ disk_cache = CacheFile(<<>>)
  /\ generation = 1
  /\ asked = {}
  /\ ret = NoCall

\* query(question, context_type, max_context_chunks, use_cache,
\* stream_response) in the environment env.  The cache key and the cache
\* lookup come before the try block; retrieval (which raises when the
\* embedding provider does, and while there is no index: faiss_index is
\* None), generation, cache_response and update_metrics are inside it.
Query(t, use_cache, stream_response, env) ==
  LET cache_key  == create_cache_key(t)
      key_raises == use_cache /\ t.question = UnencodableQuestion
      found  == use_cache /\ cache_key \in DOMAIN cache
      seen   == IF found THEN cache[cache_key] ELSE NoEntry
      hit    == found /\ is_cache_valid(seen)
      retrieval_events ==
        IF env.embedding = "raises" THEN {"embedding_raised"}
        ELSE IF generation = 0 THEN {"no_index"}
        ELSE {}
      generator_events ==
        IF env.generator = "unavailable" THEN {"generator_unavailable"}
        ELSE IF env.generator = "raises" THEN {"generator_raised"}
        ELSE {}
      response    == generate_response(t.question, env.hits,
                                       env.generator)
      stored      == (cache_key :> [response |-> response,
                                    timestamp |-> now]) @@ cache
      save_raises == use_cache /\ env.save # "ok"
      call   == [op |-> "query", triple |-> t, key |-> cache_key,
                 use_cache |-> use_cache, stream |-> stream_response,
                 first_after_rebuild |-> cache_key \notin asked,
                 index_gen |-> generation, at |-> now, seen |-> seen,
                 kind |-> "none", response |-> NoResponse,
                 hits |-> 0 - 1, events |-> {}]
  IN /\ asked' = asked \cup {cache_key}
     /\ IF key_raises
          THEN /\ ret' = [call EXCEPT !.kind = "raised",
                                      !.events = {"key_raised"}]
               /\ UNCHANGED <<cache, disk_cache>>
        ELSE IF hit
          THEN /\ ret' = [call EXCEPT !.kind = "cached",
                                      !.response = seen.response]
               /\ UNCHANGED <<cache, disk_cache>>
        ELSE IF retrieval_events # {}
          THEN /\ ret' = [call EXCEPT !.kind = "error",
                                      !.response = ErrorResponse(t.question),
                                      !.events = retrieval_events]
               /\ UNCHANGED <<cache, disk_cache>>
        ELSE IF stream_response
          THEN /\ ret' = [call EXCEPT !.kind = "stream",
                            !.response = [ErrorResponse(t.question)
                                            EXCEPT !.kind = "stream"],
                            !.hits = env.hits]
               /\ UNCHANGED <<cache, disk_cache>>
        ELSE /\ ret' = IF save_raises
                         THEN [call EXCEPT
                                 !.kind = "error",
                                 !.response = ErrorResponse(t.question),
                                 !.hits = env.hits,
                                 !.events = generator_events
                                              \cup {"save_raised"}]
                         ELSE [call EXCEPT !.kind = "answer",
                                           !.response = response,
                                           !.hits = env.hits,
                                           !.events = generator_events]
             /\ cache' = IF use_cache THEN stored ELSE cache
             /\ disk_cache' = IF use_cache THEN save_cache(stored, env.save)
                              ELSE disk_cache
     /\ UNCHANGED <<now, generation, chunkerVars, rankerVars, storeVars,
                 dirVars, rebuildVars, writerVars>>

QueryCall ==
  \E t \in Triples :
    \E use_cache, stream_response \in BOOLEAN :
      \E env \in BasicEnvs :
        Query(t, use_cache, stream_response, env) /\ UNCHANGED metricsVars

BarQueryCall ==
  \E t \in BarTriples :
    \E use_cache, stream_response \in BOOLEAN :
      \E env \in BasicEnvs :
        Query(t, use_cache, stream_response, env) /\ UNCHANGED metricsVars

ServiceQueryCall ==
  \E t \in ServiceTriples :
    \E use_cache, stream_response \in BOOLEAN :
      \E env \in EnvsFor(use_cache, stream_response) :
        Query(t, use_cache, stream_response, env) /\ UNCHANGED metricsVars

\* index_documentation: process_directory, then index_documents unless no
\* chunk was produced.  A completed index_documents is a new generation.
IndexDocumentation ==
  \E has_chunks \in BOOLEAN :
    /\ has_chunks => generation < MaxGen
    /\ generation' = IF has_chunks THEN generation + 1 ELSE generation
    /\ asked' = IF has_chunks THEN {} ELSE asked
    /\ UNCHANGED <<now, cache, disk_cache, ret, chunkerVars, rankerVars, storeVars,
                 dirVars, rebuildVars, writerVars,
                   metricsVars>>

\* A process restart: RAGSystem.__init__ sets the cache to {} and calls
\* load_cache; reading the file may fail for a reason of its own.  The
\* counters start from zero.
Restart ==
  \E read_raises \in BOOLEAN :
    /\ cache' = load_cache(disk_cache, read_raises)
    /\ ret' = [NoCall EXCEPT
                 !.op = "load_cache", !.at = now, !.index_gen = generation,
                 !.events = IF read_raises \/ disk_cache.state # "ok"
                              THEN {"load_raised"} ELSE {}]
    /\ metrics' = ZeroMetrics
    /\ UNCHANGED <<now, disk_cache, generation, asked, chunkerVars,
                   rankerVars, storeVars,
                 dirVars, rebuildVars, writerVars>>

\* The cache file is damaged while the process is down or between calls.
DamageCacheFile ==
  \E s \in {"unreadable", "malformed"} :
    /\ disk_cache.state = "ok"
    /\ disk_cache' = [state |-> s,
                      entries |-> IF s = "malformed" THEN disk_cache.entries
                                  ELSE <<>>]
    /\ UNCHANGED <<now, cache, generation, asked, ret, chunkerVars,
                   rankerVars, storeVars,
                 dirVars, rebuildVars, writerVars,
                   metricsVars>>

\* Time passes between calls of the service, at coarser instants: an entry
\* written at 0 is valid at 23 and expired at 24.
ServiceTick ==
  /\ \E t \in ServiceTimePoints : t > now /\ now' = t
  /\ UNCHANGED <<cache, disk_cache, generation, asked, ret, chunkerVars,
                 rankerVars, storeVars,
                 dirVars, rebuildVars, writerVars,
                 metricsVars>>

\* Time passes between calls.
Tick ==
  /\ \E t \in TimePoints : t > now /\ now' = t
  /\ UNCHANGED <<cache, disk_cache, generation, asked, ret, chunkerVars,
                 rankerVars, storeVars,
                 dirVars, rebuildVars, writerVars,
                 metricsVars>>

Next == QueryCall \/ IndexDocumentation \/ Restart \/ Tick

ServiceNext == ServiceQueryCall \/ Restart \/ DamageCacheFile \/ ServiceTick

BarNext == BarQueryCall \/ Restart \/ ServiceTick

\* The environments of the calls whose counters are followed.
MetricsEnvs == BasicEnvs \cup {[NormalEnv EXCEPT !.save = "dump_fails"]}

\* A query call with its counting.  (QueryCall, BarQueryCall and
\* ServiceQueryCall leave the counters out of the state they follow.)
CountedQueryCall ==
  \E t \in Triples :
    \E use_cache, stream_response \in BOOLEAN :
      \E env \in MetricsEnvs :
        /\ metrics.queries_processed < MaxCount
        /\ metrics.cache_hits < MaxCount
        /\ Query(t, use_cache, stream_response, env)
        /\ metrics' = metrics_after_query(metrics, ret'.kind)

\* A call of get_metrics.
GetMetrics ==
  /\ ret' = [op |-> "get_metrics", result |-> get_metrics(metrics, cache)]
  /\ UNCHANGED <<now, cache, disk_cache, generation, asked, chunkerVars,
                 rankerVars, storeVars, dirVars, rebuildVars, writerVars,
                 metricsVars>>

MetricsNext == CountedQueryCall \/ GetMetrics \/ Restart

(***************************************************************************)
(* VectorStore: the FAISS index, the chunk id list and their files         *)
(***************************************************************************)
\* The chunk lists index_documents is given: the chunks a..b of some part
\* of the documentation, in document order.
ChunkLists ==
  UNION {{[i \in 1..(b - a + 1) |-> a + i - 1] : b \in a..NumChunks} :
           a \in 1..NumChunks}

\* faiss_index is None.
NoIndex == [present |-> FALSE, vectors |-> <<>>]

\* An IndexFlatIP holding the vectors of the chunks ids, in that order.
IndexOf(ids) == [present |-> TRUE, vectors |-> ids]

\* A file that does not exist, one that cannot be read back (truncated by
\* a write that failed part-way), and one holding content.
MissingFile == [state |-> "missing", content |-> <<>>]
CorruptFile == [state |-> "corrupt", content |-> <<>>]
FileOf(content) == [state |-> "ok", content |-> content]

NoStoreCall == [op |-> "none", result |-> "none"]

StoreIdle ==
  /\ faiss_index = NoIndex
  /\ chunk_ids = <<>>
  /\ faiss_file = MissingFile
  /\ chunk_ids_file = MissingFile
  /\ sret = [NoStoreCall EXCEPT !.op = "idle"]
  /\ collection = {}

\* VectorStore.__init__ on an empty index directory.
StoreInit ==
  /\ faiss_index = NoIndex
  /\ chunk_ids = <<>>
  /\ faiss_file = MissingFile
  /\ chunk_ids_file = MissingFile
  /\ sret = NoStoreCall
  /\ collection = {}

\* What load_index leaves in <<self.faiss_index, self.chunk_ids>>, starting
\* from None and [] as __init__ set them, and what it returns.
load_index(index_file, ids_file) ==
  IF index_file.state = "missing" \/ ids_file.state = "missing"
    THEN [faiss_index |-> NoIndex, chunk_ids |-> <<>>, result |-> "False"]
  ELSE IF index_file.state = "corrupt"
    THEN [faiss_index |-> NoIndex, chunk_ids |-> <<>>, result |-> "False"]
  ELSE IF ids_file.state = "corrupt"
    THEN [faiss_index |-> IndexOf(index_file.content), chunk_ids |-> <<>>,
          result |-> "False"]
  ELSE [faiss_index |-> IndexOf(index_file.content),
        chunk_ids |-> ids_file.content, result |-> "True"]

\* index_documents(chunks): collection.add puts the chunks into the
\* persistent collection beside what it already holds (add on an id the
\* collection already holds raises in some releases of the client and is
\* ignored in others); then the new index and the id list replace the old
\* ones in memory, and save_index writes faiss_index.idx and after it
\* chunk_ids.pkl; a call that raises leaves index_documents.
IndexDocuments ==
  \E chunk_list \in ChunkLists :
    \E save \in {"ok", "index_write_fails", "ids_open_fails",
                 "ids_dump_fails"} :
      \E add_existing \in {"ignored", "raises"} :
        LET ids == {chunk_list[i] : i \in DOMAIN chunk_list}
            add_raises == add_existing = "raises" /\ ids \cap collection # {}
        IN /\ add_existing = "raises" => add_raises /\ save = "ok"
           /\ collection' = IF add_raises THEN collection
                             ELSE collection \cup ids
           /\ faiss_index' = IF add_raises THEN faiss_index
                              ELSE IndexOf(chunk_list)
           /\ chunk_ids' = IF add_raises THEN chunk_ids ELSE chunk_list
           /\ faiss_file' =
                CASE add_raises                 -> faiss_file
                  [] save = "index_write_fails" -> CorruptFile
                  [] OTHER                      -> FileOf(chunk_list)
           /\ chunk_ids_file' =
                CASE add_raises                 -> chunk_ids_file
                  [] save = "ok"                -> FileOf(chunk_list)
                  [] save = "index_write_fails" -> chunk_ids_file
                  [] save = "ids_open_fails"    -> chunk_ids_file
                  [] save = "ids_dump_fails"    -> CorruptFile
           /\ sret' = [op |-> "index_documents",
                       result |-> IF save = "ok" /\ ~ add_raises
                                    THEN "None" ELSE "raised"]
           /\ UNCHANGED <<chunkerVars, rankerVars, systemVars, dirVars,
                          rebuildVars, writerVars,
                          metricsVars>>

\* A process restart: VectorStore.__init__ sets None and [] and calls
\* load_index.
LoadIndex ==
  LET loaded == load_index(faiss_file, chunk_ids_file)
  IN /\ faiss_index' = loaded.faiss_index
     /\ chunk_ids' = loaded.chunk_ids
     /\ sret' = [op |-> "load_index", result |-> loaded.result]
     /\ UNCHANGED <<faiss_file, chunk_ids_file, collection, chunkerVars,
                    rankerVars, systemVars, dirVars, rebuildVars,
                    writerVars,
                    metricsVars>>

\* top_k of a search.
TopKs == {1, 2}

\* The orders in which an index of n vectors can rank its positions
\* (0-based as FAISS reports them) for a query.
IndexRankings(n) ==
  {r \in [1..n -> 0..(n - 1)] : \A i, j \in 1..n : i # j => r[i] # r[j]}

\* The inner product reported at rank r (0-based), in thousandths, and the
\* score FAISS reports beside a -1 position.
RankScore(r) == 900 - 100 * r
PadScore == 0 - 1000000

Min2(a, b) == IF a <= b THEN a ELSE b

\* faiss_index.search(query, k): the best min(k, ntotal) positions and
\* their scores, padded with -1 positions up to k.
faiss_search(index, ranking, k) ==
  LET m == Min2(k, Len(index.vectors))
  IN [indices |-> [r \in 1..k |-> IF r <= m THEN ranking[r] ELSE 0 - 1],
      scores  |-> [r \in 1..k |-> IF r <= m THEN RankScore(r - 1)
                                            ELSE PadScore]]

\* seq[idx] of a Python list: a negative idx counts from the end.
PyAt(seq, idx) == seq[IF idx >= 0 THEN idx + 1 ELSE Len(seq) + idx + 1]

\* x in seq, and seq.index(x): the 0-based position of the first x.
PyIn(seq, x) == \E i \in DOMAIN seq : seq[i] = x
PyIndex(seq, x) ==
  (CHOOSE i \in DOMAIN seq :
     seq[i] = x /\ \A j \in 1..(i - 1) : seq[j] # x) - 1

\* results.sort(key=score, reverse=True) of hits with distinct scores.
RECURSIVE SortByScore(_)
SortByScore(results) ==
  IF results = {} THEN <<>>
  ELSE LET best == CHOOSE h \in results :
                     \A g \in results : g.score <= h.score
       IN <<best>> \o SortByScore(results \ {best})

\* VectorStore.search(query, top_k) on an index, an id list and a
\* collection, for one ranking of the query; unique_ids says whether
\* collection.get refuses a list of ids with a repeated id (as some
\* releases of the client do) or answers it.  The hits are built in the
\* order collection.get returns the records; their scores are distinct,
\* so the sort fixes the result whatever that order.
candidates(indices, ids) ==
  LET kept == SelectSeq(indices, LAMBDA idx : idx < Len(ids))
  IN [index_error |-> \E i \in DOMAIN kept : kept[i] < 0 - Len(ids),
      positions |-> kept,
      candidate_ids |-> [i \in DOMAIN kept |->
                           IF kept[i] < 0 - Len(ids) THEN 0
                           ELSE PyAt(ids, kept[i])]]

score_and_sort(indices, scores, candidate_ids, stored, top_k, unique_ids) ==
  LET repeated == \E i, j \in DOMAIN candidate_ids :
                    i # j /\ candidate_ids[i] = candidate_ids[j]
      got == {candidate_ids[i] : i \in DOMAIN candidate_ids} \cap stored
      value_error ==
        \E doc_id \in got : ~ PyIn(indices, PyIndex(candidate_ids, doc_id))
      results ==
        {[id |-> doc_id,
          score |-> scores[PyIndex(indices,
                                   PyIndex(candidate_ids, doc_id)) + 1]] :
           doc_id \in got}
      sorted == SortByScore(results)
  IN IF repeated /\ unique_ids THEN [result |-> "raised", hits |-> <<>>]
     ELSE IF value_error THEN [result |-> "raised", hits |-> <<>>]
     ELSE [result |-> "returned",
           hits |-> SubSeq(sorted, 1, Min2(top_k, Len(sorted)))]

search(index, ids, stored, ranking, top_k, unique_ids) ==
  IF ~ index.present THEN [result |-> "raised", hits |-> <<>>]
  ELSE
    LET found == faiss_search(index, ranking, top_k * 2)
        cands == candidates(found.indices, ids)
    IN IF cands.index_error THEN [result |-> "raised", hits |-> <<>>]
       ELSE score_and_sort(found.indices, found.scores, cands.candidate_ids,
                           stored, top_k, unique_ids)

\* A call of search: the query fixes the ranking.
Search ==
  \E top_k \in TopKs :
    \E ranking \in IndexRankings(Len(faiss_index.vectors)) :
      \E unique_ids \in BOOLEAN :
        LET out == search(faiss_index, chunk_ids, collection, ranking,
                          top_k, unique_ids)
        IN /\ sret' = [op |-> "search", result |-> out.result,
                       hits |-> out.hits, top_k |-> top_k,
                       ranking |-> ranking]
           /\ UNCHANGED <<faiss_index, chunk_ids, faiss_file,
                          chunk_ids_file, collection, chunkerVars,
                          rankerVars, systemVars, dirVars, rebuildVars,
                          writerVars,
                          metricsVars>>

\* keyword_search(query, top_k): every document of the collection is
\* scored against the query; order is np.argsort(similarities)[::-1] and
\* positive of them have a similarity above zero; the first top_k
\* positions are read and those above zero returned.
keyword_search(order, positive, top_k) ==
  SubSeq(order, 1, Min2(top_k, positive))

KeywordSearch ==
  \E top_k \in TopKs :
    \E order \in {o \in [1..Cardinality(collection) -> collection] :
                    \A i, j \in DOMAIN o : i # j => o[i] # o[j]} :
      \E positive \in 0..Len(order) :
        /\ sret' = [op |-> "keyword_search", result |-> "returned",
                    hits |-> keyword_search(order, positive, top_k)]
        /\ UNCHANGED <<faiss_index, chunk_ids, faiss_file, chunk_ids_file,
                       collection, chunkerVars, rankerVars, systemVars,
                       dirVars, rebuildVars, writerVars,
                       metricsVars>>

StoreNext == IndexDocuments \/ LoadIndex \/ Search \/ KeywordSearch

(***************************************************************************)
(* DocumentProcessor.process_directory                                     *)
(***************************************************************************)
\* Files a documentation directory may hold.
MaxFiles == 3

\* A file: whether its suffix is a supported one, whether process_file
\* raises on it (unreadable or malformed), and how many chunks it holds.
FileChoices == [supported : BOOLEAN, fails : BOOLEAN, n : {1, 2}]

\* The chunks process_file returns for the file at position i: <<i, k>> is
\* the k-th chunk of that file.
FileChunks(i, file) == [k \in 1..file.n |-> <<i, k>>]

\* Faulty variant: the chunks of a file are collected even when
\* processing it raised.
extend_despite_error(acc, i, file) ==
  IF ~ file.supported THEN acc ELSE acc \o FileChunks(i, file)

\* One iteration of the loop of process_directory on the chunks collected
\* so far: an unsupported suffix is passed over; process_file raising is
\* logged and nothing is collected; otherwise chunks.extend(file_chunks).
process_one_file(acc, i, file) ==
  IF ~ file.supported THEN acc
  ELSE IF file.fails THEN acc
  ELSE acc \o FileChunks(i, file)

DirIdle ==
  /\ files = <<>>
  /\ fidx = 1
  /\ dir_chunks = <<>>
  /\ dpc = "idle"

\* process_directory is called on a directory of one to MaxFiles files.
DirInit ==
  /\ \E len \in 1..MaxFiles : files \in [1..len -> FileChoices]
  /\ fidx = 1
  /\ dir_chunks = <<>>
  /\ dpc = "loop"

\* for file_path in docs_path.rglob('*'): one file.
ProcessFile ==
  /\ dpc = "loop"
  /\ fidx <= Len(files)
  /\ dir_chunks' = process_one_file(dir_chunks, fidx, files[fidx])
  /\ fidx' = fidx + 1
  /\ UNCHANGED <<files, dpc, chunkerVars, rankerVars, systemVars,
                 storeVars, rebuildVars, writerVars,
                 metricsVars>>

\* return chunks
ReturnChunks ==
  /\ dpc = "loop"
  /\ fidx > Len(files)
  /\ dpc' = "done"
  /\ UNCHANGED <<files, fidx, dir_chunks, chunkerVars, rankerVars,
                 systemVars, storeVars, rebuildVars, writerVars,
                 metricsVars>>

DirNext == ProcessFile \/ ReturnChunks

(***************************************************************************)
(* A rebuild running beside a search                                       *)
(***************************************************************************)
\* index_documentation runs as a background task on a worker thread while
\* the query endpoint runs search; neither takes a lock.  The statements of
\* index_documents and of search that read or write the store's fields are
\* the steps, taken in any interleaving; one background rebuild is
\* followed from its start to its end, beside any number of searches.
NoSearch == [index |-> NoIndex, top_k |-> 0, indices |-> <<>>,
             scores |-> <<>>]
NoCandidates == [index_error |-> FALSE, positions |-> <<>>,
                 candidate_ids |-> <<>>]

RebuildIdle ==
  /\ ipc = "idle"
  /\ pending = <<>>
  /\ spc = "idle"
  /\ s_index = NoSearch
  /\ s_ids = NoCandidates

\* The service has completed index_documents on some chunk list.
RebuildInit ==
  /\ \E chunk_list \in ChunkLists :
       /\ faiss_index = IndexOf(chunk_list)
       /\ chunk_ids = chunk_list
       /\ faiss_file = FileOf(chunk_list)
       /\ chunk_ids_file = FileOf(chunk_list)
       /\ collection = {chunk_list[i] : i \in DOMAIN chunk_list}
  /\ sret = [op |-> "index_documents", result |-> "None"]
  /\ RebuildIdle

\* index_documents is entered with the chunks of the new corpus and
\* encodes them.
RebuildEncode ==
  /\ ipc = "idle"
  /\ \E chunk_list \in ChunkLists : pending' = chunk_list
  /\ ipc' = "add"
  /\ UNCHANGED <<spc, s_index, s_ids, chunkerVars, rankerVars, systemVars,
                 storeVars, dirVars, writerVars,
                 metricsVars>>

\* self.collection.add(...)
RebuildAdd ==
  /\ ipc = "add"
  /\ \E add_existing \in {"ignored", "raises"} :
       LET ids == {pending[i] : i \in DOMAIN pending}
           add_raises == add_existing = "raises" /\ ids \cap collection # {}
       IN /\ add_existing = "raises" => add_raises
          /\ collection' = IF add_raises THEN collection
                            ELSE collection \cup ids
          /\ ipc' = IF add_raises THEN "done" ELSE "new_index"
          /\ sret' = IF add_raises
                       THEN [op |-> "index_documents", result |-> "raised"]
                       ELSE sret
  /\ UNCHANGED <<faiss_index, chunk_ids, faiss_file, chunk_ids_file,
                 pending, spc, s_index, s_ids, chunkerVars, rankerVars,
                 systemVars, dirVars, writerVars,
                 metricsVars>>

\* self.faiss_index = faiss.IndexFlatIP(dimension)
RebuildNewIndex ==
  /\ ipc = "new_index"
  /\ faiss_index' = IndexOf(<<>>)
  /\ ipc' = "add_vectors"
  /\ UNCHANGED <<chunk_ids, faiss_file, chunk_ids_file, sret, collection,
                 pending, spc, s_index, s_ids, chunkerVars, rankerVars,
                 systemVars, dirVars, writerVars,
                 metricsVars>>

\* self.faiss_index.add(normalized_embeddings)
RebuildAddVectors ==
  /\ ipc = "add_vectors"
  /\ faiss_index' = IndexOf(pending)
  /\ ipc' = "chunk_ids"
  /\ UNCHANGED <<chunk_ids, faiss_file, chunk_ids_file, sret, collection,
                 pending, spc, s_index, s_ids, chunkerVars, rankerVars,
                 systemVars, dirVars, writerVars,
                 metricsVars>>

\* self.chunk_ids = [chunk.id for chunk in chunks]
RebuildChunkIds ==
  /\ ipc = "chunk_ids"
  /\ chunk_ids' = pending
  /\ ipc' = "save"
  /\ UNCHANGED <<faiss_index, faiss_file, chunk_ids_file, sret, collection,
                 pending, spc, s_index, s_ids, chunkerVars, rankerVars,
                 systemVars, dirVars, writerVars,
                 metricsVars>>

\* self.save_index()
RebuildSave ==
  /\ ipc = "save"
  /\ \E save \in {"ok", "index_write_fails", "ids_open_fails",
                   "ids_dump_fails"} :
       /\ faiss_file' = IF save = "index_write_fails" THEN CorruptFile
                        ELSE FileOf(faiss_index.vectors)
       /\ chunk_ids_file' =
            CASE save = "ok"                -> FileOf(chunk_ids)
              [] save = "index_write_fails" -> chunk_ids_file
              [] save = "ids_open_fails"    -> chunk_ids_file
              [] save = "ids_dump_fails"    -> CorruptFile
       /\ sret' = [op |-> "index_documents",
                   result |-> IF save = "ok" THEN "None" ELSE "raised"]
  /\ ipc' = "done"
  /\ UNCHANGED <<faiss_index, chunk_ids, collection, pending, spc, s_index,
                 s_ids, chunkerVars, rankerVars, systemVars, dirVars,
                 writerVars,
                 metricsVars>>

\* scores, indices = self.faiss_index.search(query_embedding, top_k * 2)
SearchIndex ==
  /\ spc = "idle"
  /\ \E top_k \in TopKs :
       \E ranking \in IndexRankings(Len(faiss_index.vectors)) :
         LET found == faiss_search(faiss_index, ranking, top_k * 2)
         IN s_index' = [index |-> faiss_index, top_k |-> top_k,
                        indices |-> found.indices, scores |-> found.scores]
  /\ s_ids' = NoCandidates
  /\ spc' = "candidates"
  /\ UNCHANGED <<ipc, pending, chunkerVars, rankerVars, systemVars,
                 storeVars, dirVars, writerVars,
                 metricsVars>>

\* candidate_ids = [self.chunk_ids[idx] for idx in indices[0] if ...]
SearchCandidates ==
  /\ spc = "candidates"
  /\ s_ids' = candidates(s_index.indices, chunk_ids)
  /\ spc' = "get"
  /\ UNCHANGED <<ipc, pending, s_index, chunkerVars, rankerVars,
                 systemVars, storeVars, dirVars, writerVars,
                 metricsVars>>

\* self.collection.get(ids=candidate_ids) and the rest of search.
SearchGet ==
  /\ spc = "get"
  /\ \E unique_ids \in BOOLEAN :
       LET out == IF s_ids.index_error
                    THEN [result |-> "raised", hits |-> <<>>]
                    ELSE score_and_sort(s_index.indices, s_index.scores,
                                        s_ids.candidate_ids, collection,
                                        s_index.top_k, unique_ids)
       IN sret' = [op |-> "search", result |-> out.result,
                   hits |-> out.hits, top_k |-> s_index.top_k,
                   ranking |-> s_index.indices]
  /\ spc' = "idle"
  /\ UNCHANGED <<faiss_index, chunk_ids, faiss_file, chunk_ids_file,
                 collection, ipc, pending, s_index, s_ids, chunkerVars,
                 rankerVars, systemVars, dirVars, writerVars,
                 metricsVars>>

RebuildNext ==
  \/ RebuildEncode
  \/ RebuildAdd
  \/ RebuildNewIndex
  \/ RebuildAddVectors
  \/ RebuildChunkIds
  \/ RebuildSave
  \/ SearchIndex
  \/ SearchCandidates
  \/ SearchGet

(***************************************************************************)
(* Query calls caching their responses on several threads                  *)
(***************************************************************************)
\* RAGSystem.query holds no lock around the cache: callers that run it on
\* several threads interleave at the statements of cache_response and
\* save_cache.  (The bundled HTTP endpoint calls query from the event
\* loop, one call at a time; threads come from a caller that shares one
\* RAGSystem between them.)
Workers == {1, 2}

NoWork == [triple |-> NoTriple, response |-> NoResponse, image |-> <<>>]

WritersIdle ==
  /\ wpc = <<>>
  /\ wsnap = <<>>

WritersInit ==
  /\ wpc = [w \in Workers |-> "idle"]
  /\ wsnap = [w \in Workers |-> NoWork]

\* query up to the call of cache_response: the cache lookup of lines
\* 772-779, then retrieval and generation; a valid cached entry is
\* returned at once.
WorkerQuery(w) ==
  /\ wpc[w] = "idle"
  /\ \E t \in Triples :
       LET cache_key == create_cache_key(t)
           hit == /\ cache_key \in DOMAIN cache
                  /\ is_cache_valid(cache[cache_key])
       IN /\ asked' = asked \cup {cache_key}
          /\ wpc' = [wpc EXCEPT ![w] = IF hit THEN "cached" ELSE "insert"]
          /\ wsnap' = [wsnap EXCEPT ![w] =
                         [triple |-> t,
                          response |-> IF hit THEN cache[cache_key].response
                                       ELSE generate_response(t.question, 2,
                                                              "ok"),
                          image |-> <<>>]]
  /\ UNCHANGED <<now, cache, disk_cache, generation, ret, chunkerVars,
                 rankerVars, storeVars, dirVars, rebuildVars,
                 metricsVars>>

\* self.cache[cache_key] = {'response': response, 'timestamp': now}
WorkerInsert(w) ==
  /\ wpc[w] = "insert"
  /\ cache' = (create_cache_key(wsnap[w].triple) :>
                 [response |-> wsnap[w].response, timestamp |-> now])
               @@ cache
  /\ wpc' = [wpc EXCEPT ![w] = "open"]
  /\ UNCHANGED <<now, disk_cache, generation, asked, ret, wsnap,
                 chunkerVars, rankerVars, storeVars, dirVars, rebuildVars,
                 metricsVars>>

\* open(response_cache.pkl, 'wb'): the file is truncated.
WorkerOpen(w) ==
  /\ wpc[w] = "open"
  /\ disk_cache' = [state |-> "unreadable", entries |-> <<>>]
  /\ wpc' = [wpc EXCEPT ![w] = "dump"]
  /\ UNCHANGED <<now, cache, generation, asked, ret, wsnap, chunkerVars,
                 rankerVars, storeVars, dirVars, rebuildVars,
                 metricsVars>>

\* pickle.dump(self.cache, f) starts to walk the dict.
WorkerDump(w) ==
  /\ wpc[w] = "dump"
  /\ wsnap' = [wsnap EXCEPT ![w].image = cache]
  /\ wpc' = [wpc EXCEPT ![w] = "close"]
  /\ UNCHANGED <<now, cache, disk_cache, generation, asked, ret,
                 chunkerVars, rankerVars, storeVars, dirVars, rebuildVars,
                 metricsVars>>

\* pickle.dump ends and the with block closes the file, which writes the
\* buffered bytes from the start of the file.  A dict that grew while it
\* was walked either makes the pickler raise RuntimeError (dictionary
\* changed size during iteration), which query answers with its error
\* response, or grew behind the walk and the image walked is written.
WorkerClose(w) ==
  /\ wpc[w] = "close"
  /\ \E grew_under_walk \in BOOLEAN :
       /\ grew_under_walk => DOMAIN cache # DOMAIN wsnap[w].image
       /\ disk_cache' = IF grew_under_walk
                          THEN [state |-> "unreadable", entries |-> <<>>]
                          ELSE CacheFile(wsnap[w].image)
       /\ wpc' = [wpc EXCEPT ![w] = IF grew_under_walk THEN "failed"
                                     ELSE "answered"]
  /\ UNCHANGED <<now, cache, generation, asked, ret, wsnap, chunkerVars,
                 rankerVars, storeVars, dirVars, rebuildVars,
                 metricsVars>>

WritersNext ==
  \E w \in Workers :
    \/ WorkerQuery(w)
    \/ WorkerInsert(w)
    \/ WorkerOpen(w)
    \/ WorkerDump(w)
    \/ WorkerClose(w)

(***************************************************************************)
(* Specifications                                                          *)
(***************************************************************************)
Init ==
  /\ SystemInit /\ ChunkerIdle /\ RankerIdle /\ StoreIdle
  /\ DirIdle /\ RebuildIdle /\ WritersIdle
  /\ MetricsIdle

Spec == Init /\ [][Next]_vars

InitService ==
  /\ SystemInitIndexed /\ ChunkerIdle /\ RankerIdle /\ StoreIdle
  /\ DirIdle /\ RebuildIdle /\ WritersIdle
  /\ MetricsIdle

SpecService == InitService /\ [][ServiceNext]_vars

InitBar ==
  /\ SystemInitIndexed /\ ChunkerIdle /\ RankerIdle /\ StoreIdle
  /\ DirIdle /\ RebuildIdle /\ WritersIdle
  /\ MetricsIdle

SpecBar == InitBar /\ [][BarNext]_vars

InitChunker ==
  /\ ChunkerInit /\ RankerIdle /\ SystemIdle /\ StoreIdle
  /\ DirIdle /\ RebuildIdle /\ WritersIdle
  /\ MetricsIdle

SpecChunker == InitChunker /\ [][ChunkerNext]_vars

InitRanker ==
  /\ RankerInit /\ ChunkerIdle /\ SystemIdle /\ StoreIdle
  /\ DirIdle /\ RebuildIdle /\ WritersIdle
  /\ MetricsIdle

SpecRanker == InitRanker /\ [][RankerNext]_vars

InitFullRange ==
  /\ RankerInitFullRange /\ ChunkerIdle /\ SystemIdle /\ StoreIdle
  /\ DirIdle /\ RebuildIdle /\ WritersIdle
  /\ MetricsIdle

SpecFullRange == InitFullRange /\ [][RankerNext]_vars

InitStore ==
  /\ StoreInit /\ ChunkerIdle /\ RankerIdle /\ SystemIdle
  /\ DirIdle /\ RebuildIdle /\ WritersIdle
  /\ MetricsIdle

SpecStore == InitStore /\ [][StoreNext]_vars

InitDir ==
  /\ DirInit /\ ChunkerIdle /\ RankerIdle /\ SystemIdle /\ StoreIdle
  /\ RebuildIdle /\ WritersIdle
  /\ MetricsIdle

SpecDir == InitDir /\ [][DirNext]_vars

InitRebuild ==
  /\ RebuildInit /\ ChunkerIdle /\ RankerIdle /\ SystemIdle
  /\ DirIdle /\ WritersIdle
  /\ MetricsIdle

SpecRebuild == InitRebuild /\ [][RebuildNext]_vars

InitWriters ==
  /\ SystemInitIndexed /\ WritersInit /\ ChunkerIdle /\ RankerIdle
  /\ StoreIdle /\ DirIdle /\ RebuildIdle
  /\ MetricsIdle

SpecWriters == InitWriters /\ [][WritersNext]_vars

InitMetrics ==
  /\ SystemInitIndexed /\ ChunkerIdle /\ RankerIdle /\ StoreIdle
  /\ DirIdle /\ RebuildIdle /\ WritersIdle
  /\ MetricsIdle

SpecMetrics == InitMetrics /\ [][MetricsNext]_vars

(***************************************************************************)
(* Chunker claims                                                          *)
(***************************************************************************)
\* Position in chunk k+1 of the block that triggered the split closing
\* chunk k: the block right after the last block of chunk k (0 if absent).
TriggerPos(k) ==
  LET nxt == chunks[k + 1].blocks
      t   == Last(chunks[k].blocks) + 1
      at  == {p \in DOMAIN nxt : nxt[p] = t}
  IN IF at = {} THEN 0 ELSE CHOOSE p \in at : \A q \in at : p <= q

\* The overlap blocks of chunk k+1: what precedes the triggering block.
OverlapPart(k) == SubSeq(chunks[k + 1].blocks, 1, TriggerPos(k) - 1)

\* The non-overlap part of chunk k: from the triggering block on (the whole
\* chunk for the first one).
OwnPart(k) ==
  IF k = 1 THEN chunks[1].blocks
  ELSE SubSeq(chunks[k].blocks, TriggerPos(k - 1), Len(chunks[k].blocks))

RECURSIVE ConcatOwnParts(_)
ConcatOwnParts(k) == IF k = 0 THEN <<>> ELSE ConcatOwnParts(k - 1) \o OwnPart(k)

\* C3: every emitted chunk that holds two or more blocks (so is not a lone
\* oversized block) has a combined block token count <= chunk_size.
C3_ChunkTokenBound ==
  \A k \in DOMAIN chunks :
    Len(chunks[k].blocks) >= 2 => TokensOf(chunks[k].blocks) <= chunk_size

\* C4: for consecutive chunks k, k+1 the blocks of chunk k+1 that precede
\* the split-triggering block are a contiguous suffix of chunk k's blocks
\* (same blocks, same order) and hold at most chunk_overlap tokens.
C4_OverlapIsBoundedSuffix ==
  \A k \in DOMAIN chunks :
    k < Len(chunks) =>
      /\ TriggerPos(k) >= 1
      /\ IsSuffix(OverlapPart(k), chunks[k].blocks)
      /\ TokensOf(OverlapPart(k)) <= chunk_overlap

\* C4 witness: a second chunk was emitted that starts with a non-empty
\* overlap taken from a longer previous chunk.
C4_Witness ==
  \E k \in DOMAIN chunks :
    /\ k < Len(chunks)
    /\ TriggerPos(k) >= 2
    /\ Len(chunks[k].blocks) > Len(OverlapPart(k))

\* C5: once the run is done, the chunks with their leading overlap blocks
\* removed, concatenated in emission order, are exactly the input block
\* sequence 1..n (every block once, in order, the last buffer flushed).
C5_NoContentLoss ==
  cpc = "done" =>
    /\ \A k \in DOMAIN chunks : k < Len(chunks) => TriggerPos(k) >= 1
    /\ ConcatOwnParts(Len(chunks)) = [b \in 1..Len(content_blocks) |-> b]

\* C5 witness: a finished run with at least two chunks and a real overlap.
C5_Witness ==
  /\ cpc = "done"
  /\ Len(chunks) >= 2
  /\ \E k \in DOMAIN chunks : k < Len(chunks) /\ TriggerPos(k) >= 2

\* C6: a block whose token count alone exceeds chunk_size is the only
\* block of the chunk that carries it.
C6_OversizedBlockAlone ==
  \A k \in DOMAIN chunks :
    \A p \in DOMAIN chunks[k].blocks :
      block_tokens(chunks[k].blocks[p]) > chunk_size =>
        chunks[k].blocks = <<chunks[k].blocks[p]>>

(***************************************************************************)
(* Ranker claims                                                           *)
(***************************************************************************)
\* The score a candidate list reports for chunk id (0 if id is absent).
ScoreIn(results, id) ==
  LET at == {i \in DOMAIN results : results[i].id = id}
  IN IF at = {} THEN 0 ELSE results[CHOOSE i \in at : TRUE].score

IdsOf(results) == {results[i].id : i \in DOMAIN results}

\* semantic_weight * semantic_score + keyword_weight * keyword_score
FusedScore(id) ==
  (semantic_weight * ScoreIn(semantic_results, id)) \div 10
  + (keyword_weight * ScoreIn(keyword_results, id)) \div 10

SignalOf(id) ==
  IF id \in IdsOf(semantic_results) /\ id \in IdsOf(keyword_results)
  THEN "hybrid"
  ELSE IF id \in IdsOf(semantic_results) THEN "semantic" ELSE "keyword"

\* C7: combine_search_results returns exactly one entry per chunk id that
\* is in either candidate list and none for other ids; the entry's score is
\* semantic_weight * semantic score + keyword_weight * keyword score (0 for
\* an absent signal) and its label is hybrid / semantic / keyword according
\* to the lists the id is in.
C7_FusionScoresAndLabels ==
  rpc # "start" =>
    /\ IdsOf(combined_results) = IdsOf(semantic_results) \cup IdsOf(keyword_results)
    /\ Len(combined_results) = Cardinality(IdsOf(combined_results))
    /\ \A i \in DOMAIN combined_results :
         /\ combined_results[i].score = FusedScore(combined_results[i].id)
         /\ combined_results[i].relevance_type = SignalOf(combined_results[i].id)

\* C7 witness: a fused list holding a hybrid, a semantic-only and a
\* keyword-only entry.
C7_Witness ==
  /\ rpc # "start"
  /\ \E i, j, k \in DOMAIN combined_results :
       /\ combined_results[i].relevance_type = "hybrid"
       /\ combined_results[j].relevance_type = "semantic"
       /\ combined_results[k].relevance_type = "keyword"

\* C8: every hit retrieve_context returns has a fused, pre-boost score of
\* at least similarity_threshold, and the fused score is what is tested:
\* the candidates of hybrid_search whose fused score reaches the threshold
\* are all returned, up to max_chunks of them.
C8_ThresholdOnFusedScore ==
  rpc = "done" =>
    LET passing == {i \in DOMAIN search_results :
                      FusedScore(search_results[i].id) >= similarity_threshold}
    IN /\ \A i \in DOMAIN hits :
            FusedScore(hits[i].id) >= similarity_threshold
       /\ Len(hits) = IF Cardinality(passing) < max_chunks
                      THEN Cardinality(passing) ELSE max_chunks

\* C8 witness: a hit was returned while a candidate whose fused score is
\* below the threshold, and which the boost alone would have lifted over
\* it, was dropped.
C8_Witness ==
  /\ rpc = "done"
  /\ hits # <<>>
  /\ \E j \in DOMAIN search_results :
       /\ IsBoosted(search_results[j], context_type)
       /\ search_results[j].score < similarity_threshold
       /\ BoostScore(search_results[j].score) >= similarity_threshold
       /\ search_results[j].id \notin IdsOf(hits)

\* C9: under a context type api / setup / tutorial / troubleshooting a hit
\* whose content types meet the expected tag set of the context type has
\* final score 1.2 * fused score; every other hit keeps its fused score.
C9_BoostByExpectedTags ==
  rpc = "done" =>
    \A i \in DOMAIN hits :
      hits[i].score =
        IF /\ context_type \in {"api", "setup", "tutorial", "troubleshooting"}
           /\ content_types[hits[i].id]
                \cap create_search_filters(context_type) # {}
        THEN (FusedScore(hits[i].id) * 12) \div 10
        ELSE FusedScore(hits[i].id)

\* C10: the returned list is sorted by final score descending, and hits
\* with equal final score are in ascending chunk id order.
C10_SortedWithIdTieBreak ==
  rpc = "done" =>
    \A i, j \in DOMAIN hits :
      i < j =>
        \/ hits[i].score > hits[j].score
        \/ hits[i].score = hits[j].score /\ hits[i].id < hits[j].id

\* The per-chunk scores behind a candidate list.
ScoresOf(results) == [id \in IdsOf(results) |-> ScoreIn(results, id)]

\* C11: two retrieve calls on the same corpus, query, weights and threshold
\* return the same ordered hit list, also when the two searches deliver
\* their equal-scored candidates in another order in the second call.
C11_SameHitsWhateverTieOrder ==
  rpc = "done" =>
    \A s2 \in Rankings(ScoresOf(semantic_results), "semantic") :
      \A k2 \in Rankings(ScoresOf(keyword_results), "keyword") :
        retrieve_context(s2, k2, max_chunks, context_type) = hits

\* Thresholds a configuration may set, thousandths.
Thresholds == {300, 630, 700, 720, 800}

\* C12: for thresholds t1 <= t2, retrieve_context with similarity_threshold
\* t2 returns at most as many hits as with t1, all else equal.
C12_ThresholdMonotone ==
  rpc = "done" =>
    /\ hits = retrieve_context_at(semantic_results, keyword_results,
                                  max_chunks, context_type,
                                  similarity_threshold)
    /\ \A t1, t2 \in Thresholds \cup {similarity_threshold} :
         t1 <= t2 =>
           Len(retrieve_context_at(semantic_results, keyword_results,
                                   max_chunks, context_type, t2))
           <= Len(retrieve_context_at(semantic_results, keyword_results,
                                      max_chunks, context_type, t1))

\* C12 witness: a call that returned hits, of which a higher threshold
\* would have returned strictly fewer.
C12_Witness ==
  /\ rpc = "done"
  /\ hits # <<>>
  /\ \E t2 \in Thresholds :
       /\ t2 > similarity_threshold
       /\ Len(retrieve_context_at(semantic_results, keyword_results,
                                  max_chunks, context_type, t2)) < Len(hits)

(***************************************************************************)
(* Cache claims                                                            *)
(***************************************************************************)
\* C1: when a response for a key was cached before a rebuild completed, the
\* first query for that key after the rebuild is a cache miss: it does not
\* return the pre-rebuild response, even within the TTL.
C1_RebuildInvalidatesCache ==
  ~ /\ ret.op = "query"
    /\ ret.first_after_rebuild
    /\ ret.seen # NoEntry
    /\ ret.seen.response.gen < ret.index_gen
    /\ ret.kind = "cached"

\* C2: a query with use_cache=True that finds its key in the cache returns
\* the cached response if and only if now - timestamp < cache_ttl; at age
\* ttl or more it recomputes (or fails) instead.
C2_CacheHitIffWithinTtl ==
  (ret.op = "query" /\ ret.use_cache /\ ret.seen # NoEntry) =>
    /\ ret.kind = "cached" <=> ret.at - ret.seen.timestamp < cache_ttl_hours
    /\ ret.kind = "cached" => ret.response = ret.seen.response
    /\ ret.kind # "cached" =>
         /\ ret.response.at = ret.at
         /\ ret.response.gen = ret.index_gen

\* C2 witness: a query found an entry of age exactly ttl and recomputed.
C2_Witness ==
  /\ ret.op = "query"
  /\ ret.use_cache
  /\ ret.seen # NoEntry
  /\ ret.at - ret.seen.timestamp = cache_ttl_hours
  /\ ret.kind = "answer"

(***************************************************************************)
(* Query path claims                                                       *)
(***************************************************************************)
\* The failures of the generator, which generate_response handles itself.
GeneratorEvents == {"generator_unavailable", "generator_raised"}

\* The exceptions that leave retrieval, cache_response or the key
\* computation.
RaisedEvents == {"key_raised", "embedding_raised", "no_index", "save_raised"}

\* C13: when the embedding provider raises while encoding the query, the
\* query still returns a normal answer (built from the keyword results),
\* not the error response.
C13_KeywordOnlyWhenEmbeddingFails ==
  (ret.op = "query" /\ "embedding_raised" \in ret.events) =>
    /\ ret.kind \in {"answer", "stream"}
    /\ ret.response.kind # "error"

C15_NoHitsSaysNotFound ==
  (ret.op = "query" /\ ret.kind = "answer" /\ ret.hits = 0) =>
    /\ ret.response.kind = "not_found"
    /\ ret.response.sources = 0
    /\ ret.response.confidence = "zero"

\* C16: every non-streaming query returns a response object; whatever
\* raises on the way (key and cache lookup, retrieval, caching the
\* response) ends in the error response with confidence 0 and no sources.
C16_EveryExceptionConverted ==
  (ret.op = "query" /\ ~ ret.stream) =>
    /\ ret.kind \in {"cached", "answer", "error"}
    /\ ret.events \cap RaisedEvents # {} =>
         /\ ret.kind = "error"
         /\ ret.response.kind = "error"
         /\ ret.response.sources = 0
         /\ ret.response.confidence = "zero"

(***************************************************************************)
(* Cache persistence claims                                                *)
(***************************************************************************)
\* The entries of a cache that have not expired at time t.
Unexpired(entries, t) ==
  [k \in {k \in DOMAIN entries :
            t - entries[k].timestamp < cache_ttl_hours} |-> entries[k]]

\* A step that is a restart whose load did not raise.
RestartStep ==
  /\ ret'.op = "load_cache"
  /\ ret'.events = {}
  /\ now' = now
  /\ generation' = generation

\* After a cache_response that returned, the file holds the whole cache.
C17_WrittenThrough ==
  (ret.op = "query" /\ ret.use_cache /\ ret.kind = "answer") =>
    disk_cache = CacheFile(cache)

\* A restart brings back every entry of the in-memory cache that is
\* unexpired at load time.
C17_RestartRecovers ==
  RestartStep =>
    \A k \in DOMAIN Unexpired(cache, now) :
      k \in DOMAIN cache' /\ cache'[k] = cache[k]

\* C17: after every completed cache_response the cache file holds the whole
\* in-memory cache, and a restart between operations recovers every entry
\* that is unexpired at load time.
C17_PersistedEqualsMemory ==
  [] C17_WrittenThrough /\ [][C17_RestartRecovers]_vars

\* C17 witness: a second key's response was cached next to an earlier
\* entry, and the file holds both.
C17_Witness ==
  /\ ret.op = "query"
  /\ ret.use_cache
  /\ ret.kind = "answer"
  /\ Cardinality(DOMAIN cache) = 2
  /\ disk_cache = CacheFile(cache)

\* C18: right after load_cache the in-memory cache is exactly the persisted
\* entries of age < ttl, each with its response and timestamp.
C18_LoadKeepsExactlyValid ==
  (ret.op = "load_cache" /\ ret.events = {} /\ disk_cache.state = "ok") =>
    cache = Unexpired(disk_cache.entries, ret.at)

\* C18 witness: a start-up found one valid and one expired entry.
C18_Witness ==
  /\ ret.op = "load_cache"
  /\ ret.events = {}
  /\ \E k1, k2 \in DOMAIN disk_cache.entries :
       k1 \in DOMAIN cache /\ k2 \notin DOMAIN cache

\* C19: when reading or sweeping the persisted cache raises, start-up
\* completes with an empty in-memory cache.
C19_CorruptCacheLoadsEmpty ==
  (ret.op = "load_cache" /\ "load_raised" \in ret.events) => cache = <<>>

\* C19 witness: the file loaded with entries, and the sweep raised on it.
C19_Witness ==
  /\ ret.op = "load_cache"
  /\ "load_raised" \in ret.events
  /\ disk_cache.state = "malformed"
  /\ disk_cache.entries # <<>>
  /\ cache = <<>>

(***************************************************************************)
(* Store claims                                                            *)
(***************************************************************************)
\* C20: after load_index returns, either the index and the chunk id list
\* are both loaded with as many ids as vectors, or the store has no index
\* (faiss_index is None and chunk_ids is empty).
C20_LoadIndexAllOrNothing ==
  sret.op = "load_index" =>
    \/ /\ faiss_index.present
       /\ Len(chunk_ids) = Len(faiss_index.vectors)
       /\ sret.result = "True"
    \/ /\ faiss_index = NoIndex
       /\ chunk_ids = <<>>
       /\ sret.result = "False"

(***************************************************************************)
(* Retrieval pipeline claims                                               *)
(***************************************************************************)
\* The reference pipeline: every fused candidate goes through the
\* threshold, the boost and the sort, and only the result is cut.
ReferenceHits ==
  Take(filter_and_rank_results(combined_results, context_type), max_chunks)

\* C26: retrieve_context returns the list of the reference pipeline; the
\* cut of the fused list in hybrid_search removes no hit of it.
C26_EarlyCutLosesNoHit ==
  rpc = "done" => hits = ReferenceHits

(***************************************************************************)
(* Cache use claims                                                        *)
(***************************************************************************)
\* The call just made is one that may write the cache: use_cache=True, not
\* streaming, a miss, and it returned its answer.
WritingCall ==
  /\ ret'.use_cache
  /\ ~ ret'.stream
  /\ ret'.kind = "answer"

\* C28: query changes the cache, in memory and persisted, only when the
\* call had use_cache=True, was not streaming, missed the cache and
\* completed without exception; every other call leaves both unchanged.
C28_CacheChangesOnlyOnCompletedMiss ==
  [][(ServiceQueryCall /\ ~ WritingCall) =>
       (cache' = cache /\ disk_cache' = disk_cache)]_vars

\* C29: a query with stream_response=True returns a stream, never a
\* response object, whatever the cache holds.
C29_StreamRequestGetsStream ==
  (ret.op = "query" /\ ret.stream) => ret.kind = "stream"

\* C30: distinct triples have distinct key data, and a cached response
\* is only returned to a query for the question it answered.
C30_KeyDataSeparatesTriples ==
  ret.op = "query" =>
    /\ ret.kind = "cached" => ret.response.query = ret.triple.question
    /\ \A t \in BarTriples : create_cache_key(t) = ret.key => t = ret.triple

(***************************************************************************)
(* Directory claims                                                        *)
(***************************************************************************)
\* The chunks of the first k files that are supported and process without
\* error, in file order.
RECURSIVE ChunksOfGoodFiles(_)
ChunksOfGoodFiles(k) ==
  IF k = 0 THEN <<>>
  ELSE ChunksOfGoodFiles(k - 1) \o
       (IF files[k].supported /\ ~ files[k].fails
          THEN [j \in 1..files[k].n |-> <<k, j>>] ELSE <<>>)

\* C23: whatever subset of the documents fails, process_directory goes
\* through every file and returns exactly the chunks of the documents that
\* processed without error.
C23_FailedDocumentsSkipped ==
  /\ dpc = "loop" => dir_chunks = ChunksOfGoodFiles(fidx - 1)
  /\ dpc = "done" =>
       /\ fidx = Len(files) + 1
       /\ dir_chunks = ChunksOfGoodFiles(Len(files))

\* C23 witness: a run returned the chunks of a document that came after a
\* failing one.
C23_Witness ==
  /\ dpc = "done"
  /\ \E i, j \in DOMAIN files :
       /\ i < j
       /\ files[i].supported /\ files[i].fails
       /\ files[j].supported /\ ~ files[j].fails
       /\ \E c \in DOMAIN dir_chunks : dir_chunks[c][1] = j

(***************************************************************************)
(* Search claims                                                           *)
(***************************************************************************)
\* The store holds what a completed index_documents published: the id
\* list names the vectors of the index, position by position.
Published == faiss_index.present /\ faiss_index.vectors = chunk_ids

\* The rank (0-based) the index gave the chunk doc_id in the search
\* recorded in sret.
TrueRank(doc_id) ==
  CHOOSE r \in 0..(Len(sret.ranking) - 1) :
    faiss_index.vectors[sret.ranking[r + 1] + 1] = doc_id

\* C24: on a published index, search does not fail in its score lookup and
\* every hit carries the score the index reported at the rank of the
\* hit's own chunk.
C24_HitCarriesItsOwnScore ==
  (sret.op = "search" /\ Published) =>
    /\ sret.result = "returned"
    /\ \A i \in DOMAIN sret.hits :
         sret.hits[i].score = RankScore(TrueRank(sret.hits[i].id))

\* C25: on a published index of N vectors, a search that returns gives
\* min(top_k, N) hits or fewer, no chunk twice, the hit at place i being
\* the chunk the index ranked i-th, scores descending.
C25_HitsAreTheTrueTopK ==
  (sret.op = "search" /\ Published /\ sret.result = "returned") =>
    /\ Len(sret.hits) <= Min2(sret.top_k, Len(faiss_index.vectors))
    /\ \A i, j \in DOMAIN sret.hits :
         i < j => /\ sret.hits[i].id # sret.hits[j].id
                  /\ sret.hits[i].score >= sret.hits[j].score
    /\ \A i \in DOMAIN sret.hits : TrueRank(sret.hits[i].id) = i - 1

\* C27: after completed rebuilds the collection keyword_search reads holds
\* exactly the chunks of the most recent rebuild, the ones the vector
\* index maps to, and a keyword search returns none but those.
C27_BothSignalsServeLatestRebuild ==
  /\ (sret.op = "index_documents" /\ sret.result = "None") =>
       collection = {chunk_ids[i] : i \in DOMAIN chunk_ids}
  /\ (sret.op = "keyword_search" /\ Published) =>
       \A i \in DOMAIN sret.hits :
         \E j \in DOMAIN chunk_ids : chunk_ids[j] = sret.hits[i]

(***************************************************************************)
(* Concurrency claims                                                      *)
(***************************************************************************)
\* C21: in a search running beside a rebuild, every position the index
\* returned is mapped to the chunk whose vector the searched index holds
\* at that position.
C21_SearchReadsOneGeneration ==
  spc = "get" =>
    \A i \in DOMAIN s_ids.positions :
      s_ids.positions[i] >= 0 =>
        /\ s_ids.positions[i] < Len(s_index.index.vectors)
        /\ s_ids.candidate_ids[i] =
             s_index.index.vectors[s_ids.positions[i] + 1]

\* C22: once every concurrent query call has completed, none of them has
\* failed on the cache, the in-memory cache holds the key of every call
\* that was answered, and the persisted cache equals the in-memory cache.
C22_ConcurrentWritesAllLand ==
  (\A w \in Workers : wpc[w] \in {"cached", "answered", "failed"}) =>
    /\ \A w \in Workers :
         /\ wpc[w] # "failed"
         /\ create_cache_key(wsnap[w].triple) \in DOMAIN cache
    /\ (\E w \in Workers : wpc[w] # "cached") =>
         disk_cache = CacheFile(cache)

(***************************************************************************)
(* Section label claims                                                    *)
(***************************************************************************)
\* The last heading block among the blocks 1..b (0, standing for None, if
\* there is none).
RECURSIVE LastHeadingUpTo(_)
LastHeadingUpTo(b) ==
  IF b = 0 THEN 0
  ELSE IF content_blocks[b].type = "heading" THEN b
  ELSE LastHeadingUpTo(b - 1)

\* C31: every chunk is labelled with the last heading among the blocks up
\* to and including its own last block; a heading that triggers a split
\* does not label the chunk closed before it.
C31_SectionIsLastHeadingOfChunk ==
  \A k \in DOMAIN chunks :
    chunks[k].section = LastHeadingUpTo(Last(chunks[k].blocks))

(***************************************************************************)
(* Metrics claims                                                          *)
(***************************************************************************)
\* C32: cache_hits never exceeds queries_processed, and the cache_hit_rate
\* get_metrics reports is at most 1.
C32_HitRateAtMostOne ==
  /\ metrics.cache_hits <= metrics.queries_processed
  /\ ret.op = "get_metrics" =>
       ret.result.cache_hit_rate.num <= ret.result.cache_hit_rate.den

(***************************************************************************)
(* Fallback caching claims                                                 *)
(***************************************************************************)
\* The responses generate_fallback_response builds.
FallbackKinds == {"fallback", "not_found"}

\* The last call was answered by the extractive fallback: the response is
\* in the cache under the call's key with the time of the call.
C33_FallbackStored ==
  (/\ ret.use_cache
   /\ ret.kind = "answer"
   /\ ret.response.kind \in FallbackKinds)
  => /\ ret.key \in DOMAIN cache
     /\ cache[ret.key] = [response |-> ret.response, timestamp |-> ret.at]

\* The last call found under its key a fallback response younger than the
\* ttl: it returned that response, with no retrieval and no generator
\* call, whatever the generator would do now.
C33_FallbackServed ==
  (/\ ret.use_cache
   /\ ret.kind # "raised"
   /\ ret.seen # NoEntry
   /\ ret.at - ret.seen.timestamp < cache_ttl_hours
   /\ ret.seen.response.kind \in FallbackKinds)
  => /\ ret.kind = "cached"
     /\ ret.response = ret.seen.response
     /\ ret.events = {}

\* C33: a response of the extractive fallback is cached like any other,
\* and a repeated query within the ttl gets it back without a generator
\* call, also when the generator is available again.
C33_FallbackResponseIsCached ==
  ret.op = "query" => (C33_FallbackStored /\ C33_FallbackServed)

\* C33 witness: a later call was served a cached fallback response.
C33_Witness ==
  /\ ret.op = "query"
  /\ ret.kind = "cached"
  /\ ret.response.kind = "fallback"
  /\ ret.at > ret.response.at

(***************************************************************************)
(* Default configuration claims                                            *)
(***************************************************************************)
\* C34: with the default weights and threshold, every hit retrieve_context
\* returns is in the semantic candidate list: none is labelled keyword,
\* and one labelled semantic has semantic score 1.
C34_OnlySemanticHitsPass ==
  rpc = "done" =>
    \A i \in DOMAIN hits :
      /\ hits[i].id \in IdsOf(semantic_results)
      /\ hits[i].relevance_type # "keyword"
      /\ hits[i].relevance_type = "semantic" =>
           ScoreIn(semantic_results, hits[i].id) = 1000

\* C34 witness: a semantic-only hit of score 1 was returned while a
\* keyword-only candidate of score 1 and a semantic-only candidate just
\* below 1 were dropped.
C34_Witness ==
  /\ rpc = "done"
  /\ \E i \in DOMAIN hits : hits[i].relevance_type = "semantic"
  /\ \E j \in DOMAIN search_results :
       /\ search_results[j].relevance_type = "keyword"
       /\ ScoreIn(keyword_results, search_results[j].id) = 1000
       /\ search_results[j].id \notin IdsOf(hits)
  /\ \E j \in DOMAIN search_results :
       /\ search_results[j].relevance_type = "semantic"
       /\ ScoreIn(semantic_results, search_results[j].id) = 999
       /\ search_results[j].id \notin IdsOf(hits)

====
